---- MODULE Spec2Model ----
(***************************************************************************)
(* Model of the amaryllis avatar library (src/src/lib.rs, src/src/utils.rs) *)
(*                                                                         *)
(* Avatar::new builds a descriptor (width, height, initials, text_color);  *)
(* Avatar::simple and Avatar::gradient allocate a pixel buffer, fill it and *)
(* overlay the initials.  utils::remap is the linear remap the gradient     *)
(* path applies to every noise sample.                                      *)
(*                                                                         *)
(* Option<T> is modelled as a sequence: None is <<>>, Some(x) is <<x>>.     *)
(* A &str / String is a sequence of one-character strings.                  *)
(* An f64 is a record: a finite rational n/d in lowest terms, or one of the *)
(* IEEE specials nan, pinf, ninf.                                           *)
(* A u32 seed is a pair <<high 16 bits, low 16 bits>>, so that the literal  *)
(* 4294967295 of lib.rs:196 keeps its full width.                           *)
(***************************************************************************)
EXTENDS Integers, Sequences, FiniteSets, TLC

VARIABLES pc, call, origin, avatar, image_buf, font, remap_out

vars == <<pc, call, origin, avatar, image_buf, font, remap_out>>

\* ---------------------------------------------------------------- bounds
MaxNameLen == 5
MaxDim == 2
RemapMax == 1

\* ------------------------------------------------------------- constants
WordMax == 65535

None == <<>>
Some(x) == <<x>>

Alphabet == {"A", "B", " "}
Names == UNION {[1..n -> Alphabet] : n \in 0..MaxNameLen}
Dims == {-1} \cup (0..MaxDim)

White == <<255, 255, 255, 255>>
Black == <<0, 0, 0, 255>>
DeepPink == <<255, 20, 147, 255>>
Cyan == <<0, 255, 255, 255>>
FillColors == {White, Black}
TextColors == {Black}
Gradients == {<<DeepPink, Cyan>>, <<Black, White>>}
NoiseScales == {1, 2}
Fonts == {"corner", "full"}

\* ------------------------------------------------------- f64 arithmetic
RECURSIVE Gcd(_, _)
Gcd(a, b) == IF b = 0 THEN a ELSE Gcd(b, a % b)

Abs(n) == IF n < 0 THEN 0 - n ELSE n
Sign(n) == IF n < 0 THEN -1 ELSE IF n = 0 THEN 0 ELSE 1

NaN == [k |-> "nan", n |-> 0, d |-> 1]
PInf == [k |-> "pinf", n |-> 0, d |-> 1]
NInf == [k |-> "ninf", n |-> 0, d |-> 1]
DegenerateRemapRange == [k |-> "err", n |-> 0, d |-> 1]

Fin(n, d) ==
  LET s == IF d < 0 THEN -1 ELSE 1
      g == Gcd(Abs(n), Abs(d))
  IN [k |-> "fin", n |-> (s * n) \div g, d |-> (s * d) \div g]

F(i) == Fin(i, 1)

InfOfSign(s) == IF s < 0 THEN NInf ELSE PInf
FSign(x) == IF x.k = "pinf" THEN 1 ELSE IF x.k = "ninf" THEN -1 ELSE Sign(x.n)
IsInf(x) == x.k \in {"pinf", "ninf"}

FNeg(x) ==
  IF x.k = "fin" THEN Fin(0 - x.n, x.d)
  ELSE IF x.k = "pinf" THEN NInf
  ELSE IF x.k = "ninf" THEN PInf
  ELSE x

FAdd(x, y) ==
  IF x.k = "nan" \/ y.k = "nan" THEN NaN
  ELSE IF IsInf(x) /\ IsInf(y) THEN (IF x.k = y.k THEN x ELSE NaN)
  ELSE IF IsInf(x) THEN x
  ELSE IF IsInf(y) THEN y
  ELSE Fin(x.n * y.d + y.n * x.d, x.d * y.d)

FSub(x, y) == FAdd(x, FNeg(y))

FMul(x, y) ==
  IF x.k = "nan" \/ y.k = "nan" THEN NaN
  ELSE IF IsInf(x) \/ IsInf(y)
       THEN (IF FSign(x) * FSign(y) = 0 THEN NaN ELSE InfOfSign(FSign(x) * FSign(y)))
  ELSE Fin(x.n * y.n, x.d * y.d)

FDiv(x, y) ==
  IF x.k = "nan" \/ y.k = "nan" THEN NaN
  ELSE IF IsInf(x) /\ IsInf(y) THEN NaN
  ELSE IF IsInf(x) THEN InfOfSign(FSign(x) * (IF FSign(y) < 0 THEN -1 ELSE 1))
  ELSE IF IsInf(y) THEN F(0)
  ELSE IF y.n = 0 THEN (IF x.n = 0 THEN NaN ELSE InfOfSign(Sign(x.n)))
  ELSE Fin(x.n * y.d, x.d * y.n)

\* utils.rs:2-4   (t - a) * ((d - c) / (b - a)) + c
remap(t, a, b, c, d) == FAdd(FMul(FSub(t, a), FDiv(FSub(d, c), FSub(b, a))), c)

\* ------------------------------------------------------------ Avatar::new
\* str::split(" "): one word per separator plus one; "" splits into [""]
RECURSIVE Split(_)
Split(s) ==
  IF s = <<>> THEN << <<>> >>
  ELSE IF Head(s) = " " THEN << <<>> >> \o Split(Tail(s))
  ELSE LET r == Split(Tail(s)) IN << <<Head(s)>> \o Head(r) >> \o Tail(r)

\* lib.rs:86  name_split.clone().position(|x| x == word).unwrap(): the
\* 0-based index of the FIRST word equal to word
Position(words, word) ==
  (CHOOSE i \in 1..Len(words) :
      words[i] = word /\ \A j \in 1..(i - 1) : words[j] # word) - 1

\* lib.rs:85-90  the loop over the words; word.chars().nth(0).unwrap()
\* panics on an empty word
RECURSIVE PushInitials(_, _, _)
PushInitials(words, i, acc) ==
  IF i > Len(words) THEN [panic |-> FALSE, s |-> acc]
  ELSE LET word == words[i]
           pos == Position(words, word)
       IN IF pos = 0 \/ pos = Len(words) - 1
          THEN IF word = <<>> THEN [panic |-> TRUE, s |-> acc]
               ELSE PushInitials(words, i + 1, Append(acc, word[1]))
          ELSE PushInitials(words, i + 1, acc)

Descriptor(width, height, initials, text_color) ==
  [width |-> width, height |-> height, initials |-> initials, text_color |-> text_color]

NoAvatar == Descriptor(0, 0, None, None)

NewAvatar_KeepInitials(width, height, name_string, text_rgba) ==
  IF name_string = None
  THEN [panic |-> FALSE, avatar |-> Descriptor(width, height, None, None)]
  ELSE LET r == PushInitials(Split(name_string[1]), 1, <<>>)
       IN IF r.panic THEN [panic |-> TRUE, avatar |-> NoAvatar]
          ELSE [panic |-> FALSE,
                avatar |-> Descriptor(width, height, Some(r.s), text_rgba)]

\* lib.rs:71-110
NewAvatar(width, height, name_string, text_rgba) ==
  IF name_string = None
  THEN [panic |-> FALSE, avatar |-> Descriptor(width, height, None, None)]
  ELSE IF text_rgba = None
  THEN [panic |-> FALSE, avatar |-> Descriptor(width, height, None, None)]
  ELSE LET r == PushInitials(Split(name_string[1]), 1, <<>>)
       IN IF r.panic THEN [panic |-> TRUE, avatar |-> NoAvatar]
          ELSE [panic |-> FALSE,
                avatar |-> Descriptor(width, height, Some(r.s), text_rgba)]

OriginOf(name_string, text_rgba) ==
  IF name_string = None THEN "no_name"
  ELSE IF text_rgba = None THEN "name_no_color"
  ELSE "name_and_color"

\* ------------------------------------------------------- pixel buffers
Pixels(w, h) == (0..(w - 1)) \X (0..(h - 1))

\* u32::try_from(i32): fails exactly on a negative value
TryFromU32(v) == IF v < 0 THEN None ELSE Some(v)

NewImageBuffer_Swapped(w, h) ==
  [width |-> h, height |-> w, px |-> [p \in Pixels(h, w) |-> <<0, 0, 0, 0>>]]

\* ImageBuffer::new(width, height): a zeroed width x height buffer
NewImageBuffer(w, h) ==
  [width |-> w, height |-> h, px |-> [p \in Pixels(w, h) |-> <<0, 0, 0, 0>>]]

SolidFill_SkipOrigin(buf, color_rgba) ==
  [buf EXCEPT !.px = [p \in DOMAIN buf.px |->
                        IF p = <<0, 0>> THEN buf.px[p] ELSE color_rgba]]

\* lib.rs:133-135  every pixel := Rgba(color_rgba)
SolidFill(buf, color_rgba) ==
  [buf EXCEPT !.px = [p \in DOMAIN buf.px |-> color_rgba]]

\* ------------------------------------------------------- gradient fill
U32Max == <<WordMax, WordMax>>
U32Less(s, t) == s[1] < t[1] \/ (s[1] = t[1] /\ s[2] < t[2])
SeedSamples == {0, WordMax} \X {0, WordMax}

\* Rng::gen_range(lo..hi): the half-open range lo <= s < hi
GenRange(lo, hi) == {s \in SeedSamples : ~U32Less(s, lo) /\ U32Less(s, hi)}

\* lib.rs:196  the seeds thread_rng().gen_range(0..4294967295) can return
SeedRange == GenRange(<<0, 0>>, U32Max)

\* noise::OpenSimplex::new(seed).get([x, y]): a fixed function of the seed
\* and the sample point with values in [-1, 1]
NoiseGet(seed, x, y) ==
  F((((seed[1] % 7) + (seed[2] % 5) + x + 2 * y) % 3) - 1)

\* gradient.at(t).to_rgba8(): linear blend of the two stops, t clamped to
\* [0, 1], each channel rounded to the nearest u8
GradientAt(gradient, t) ==
  LET n == IF t.n < 0 THEN 0 ELSE IF t.n > t.d THEN t.d ELSE t.n
      d == t.d
  IN [c \in 1..4 |->
        (2 * (gradient[1][c] * d + (gradient[2][c] - gradient[1][c]) * n) + d)
           \div (2 * d)]

\* lib.rs:203-207
GradientFill(buf, noise_scale, gradient, seed) ==
  [buf EXCEPT !.px = [p \in DOMAIN buf.px |->
     LET noise_t == NoiseGet(seed, p[1] * noise_scale, p[2] * noise_scale)
     IN GradientAt(gradient, remap(noise_t, F(-1), F(1), F(0), F(1)))]]

\* ---------------------------------------------------------- text overlay
\* text_size + draw_text_mut with the embedded font: the pixels the glyphs
\* cover are a fixed function of the font resource, which is chosen once
GlyphCoverage(f, buf) ==
  IF f = "corner" THEN {<<0, 0>>} \cap DOMAIN buf.px
  ELSE DOMAIN buf.px

\* lib.rs:137-164 and 209-236
TextOverlay(self, buf, f) ==
  IF self.initials # None /\ self.text_color # None
  THEN [buf EXCEPT !.px = [p \in DOMAIN buf.px |->
          IF p \in GlyphCoverage(f, buf) THEN self.text_color[1] ELSE buf.px[p]]]
  ELSE buf

\* lib.rs:127-167; None stands for the panic of unwrap()
SimpleRender(self, color_rgba, f) ==
  IF TryFromU32(self.width) = None \/ TryFromU32(self.height) = None THEN None
  ELSE Some(TextOverlay(self,
              SolidFill(NewImageBuffer(self.width, self.height), color_rgba), f))

\* lib.rs:195-239 for the seed drawn at line 196
GradientRender(self, noise_scale, gradient, seed, f) ==
  IF TryFromU32(self.width) = None \/ TryFromU32(self.height) = None THEN None
  ELSE Some(TextOverlay(self,
              GradientFill(NewImageBuffer(self.width, self.height),
                           noise_scale, gradient, seed), f))

\* ---------------------------------------------------------------- actions
NoCall == [op |-> "none"]

Init ==
  /\ pc = "start"
  /\ call = NoCall
  /\ origin = "none"
  /\ avatar = NoAvatar
  /\ image_buf = None
  /\ font \in Fonts
  /\ remap_out = None

New ==
  /\ pc = "start"
  /\ \E width \in Dims, height \in Dims,
        name_string \in {None} \cup {Some(n) : n \in Names},
        text_rgba \in {None} \cup {Some(c) : c \in TextColors} :
       LET r == NewAvatar(width, height, name_string, text_rgba)
       IN /\ call' = [op |-> "new", width |-> width, height |-> height,
                      name_string |-> name_string, text_rgba |-> text_rgba]
          /\ pc' = IF r.panic THEN "panicked" ELSE "constructed"
          /\ avatar' = r.avatar
          /\ origin' = OriginOf(name_string, text_rgba)
  /\ UNCHANGED <<image_buf, font, remap_out>>

Simple ==
  /\ pc = "constructed"
  /\ \E color_rgba \in FillColors :
       LET r == SimpleRender(avatar, color_rgba, font)
       IN /\ call' = [op |-> "simple", color_rgba |-> color_rgba]
          /\ image_buf' = r
          /\ pc' = IF r = None THEN "panicked" ELSE "constructed"
  /\ UNCHANGED <<origin, avatar, font, remap_out>>

Gradient ==
  /\ pc = "constructed"
  /\ \E noise_scale \in NoiseScales, gradient \in Gradients, seed \in SeedRange :
       LET r == GradientRender(avatar, noise_scale, gradient, seed, font)
       IN /\ call' = [op |-> "gradient", noise_scale |-> noise_scale,
                      gradient |-> gradient, seed |-> seed, seed_from |-> SeedRange]
          /\ image_buf' = r
          /\ pc' = IF r = None THEN "panicked" ELSE "constructed"
  /\ UNCHANGED <<origin, avatar, font, remap_out>>

Next == New \/ Simple \/ Gradient

Spec == Init /\ [][Next]_vars

\* --------------------------------------- remap as a function on its own
RemapInputs == {F(i) : i \in (0 - RemapMax)..RemapMax}

InitRemap ==
  /\ pc = "start"
  /\ \E t \in RemapInputs, a \in RemapInputs, b \in RemapInputs,
        c \in RemapInputs, d \in RemapInputs :
       call = [op |-> "remap_args", t |-> t, a |-> a, b |-> b, c |-> c, d |-> d]
  /\ origin = "none"
  /\ avatar = NoAvatar
  /\ image_buf = None
  /\ font = "full"
  /\ remap_out = None

Remap ==
  /\ call.op = "remap_args"
  /\ call' = [call EXCEPT !.op = "remap"]
  /\ remap_out' = Some(remap(call.t, call.a, call.b, call.c, call.d))
  /\ UNCHANGED <<pc, origin, avatar, image_buf, font>>

NextRemap == Remap

SpecRemap == InitRemap /\ [][NextRemap]_vars


\* ------------------------------------------------------------ properties
IsNewCall == call.op = "new"
IsRender == call.op \in {"simple", "gradient"}
PositiveDims == avatar.width > 0 /\ avatar.height > 0

MultiWord(name) ==
  LET words == Split(name)
  IN Len(words) >= 2 /\ \A i \in 1..Len(words) : words[i] # <<>>

FirstLast(name) ==
  LET words == Split(name) IN <<words[1][1], words[Len(words)][1]>>

\* C1: for every name of two or more space-separated non-empty words and any
\* supplied text color, Avatar::new yields initials of exactly two
\* characters: first character of the first word, then first character of
\* the last word.
C1_InitialsFirstLast ==
  (IsNewCall /\ call.name_string # None /\ call.text_rgba # None
      /\ MultiWord(call.name_string[1]))
    => (pc = "constructed"
        /\ avatar.initials = Some(FirstLast(call.name_string[1])))

\* C2: Avatar::new never panics for positive width and height, whatever the
\* optional name and optional text color are.
C2_NewNeverFails ==
  (IsNewCall /\ call.width > 0 /\ call.height > 0) => pc = "constructed"

\* C3: a name given without a text color yields a descriptor with initials
\* and text_color both absent, and every later simple or gradient call on it
\* returns exactly the fill result (no text is drawn).
C3_NoColorNoText ==
  /\ (IsNewCall /\ call.name_string # None /\ call.text_rgba = None)
       => (pc = "constructed" /\ avatar.initials = None /\ avatar.text_color = None)
  /\ (origin = "name_no_color" /\ call.op = "simple" /\ pc = "constructed")
       => image_buf = Some(SolidFill(NewImageBuffer(avatar.width, avatar.height),
                                     call.color_rgba))
  /\ (origin = "name_no_color" /\ call.op = "gradient" /\ pc = "constructed")
       => image_buf = Some(GradientFill(NewImageBuffer(avatar.width, avatar.height),
                                        call.noise_scale, call.gradient, call.seed))

C3_Witness ==
  /\ origin = "name_no_color"
  /\ call.op = "gradient"
  /\ pc = "constructed"
  /\ avatar.width = 2 /\ avatar.height = 2
  /\ font = "full"
  /\ image_buf # None

\* C4: in every descriptor returned by Avatar::new, initials is absent or at
\* most 2 characters long, and no later simple or gradient call changes it.
C4_InitialsAtMostTwo ==
  /\ [](pc = "constructed" => (avatar.initials = None \/ Len(avatar.initials[1]) <= 2))
  /\ [][pc = "constructed" => avatar' = avatar]_vars

\* C5: for a descriptor with no initials and positive dimensions, every
\* pixel of the buffer returned by simple equals the fill color.
C5_SolidFillUniform ==
  (call.op = "simple" /\ avatar.initials = None /\ PositiveDims)
    => (image_buf # None
        /\ \A p \in Pixels(avatar.width, avatar.height) :
             p \in DOMAIN image_buf[1].px /\ image_buf[1].px[p] = call.color_rgba)

C5_Witness ==
  /\ call.op = "simple"
  /\ avatar.initials = None
  /\ avatar.width = 2 /\ avatar.height = 1
  /\ image_buf # None
  /\ image_buf[1].px[<<1, 0>>] = White

\* C6: for positive width and height (1x1 included) the buffer returned by
\* simple and by gradient has the descriptor's width and height, with or
\* without a text overlay.
C6_BufferDims ==
  (IsRender /\ PositiveDims)
    => (pc = "constructed"
        /\ image_buf # None
        /\ image_buf[1].width = avatar.width
        /\ image_buf[1].height = avatar.height
        /\ DOMAIN image_buf[1].px = Pixels(avatar.width, avatar.height))

C6_Witness ==
  /\ call.op = "gradient"
  /\ avatar.initials # None
  /\ avatar.width = 1 /\ avatar.height = 2
  /\ image_buf # None
  /\ image_buf[1].width = 1 /\ image_buf[1].height = 2

\* C7: a simple or gradient call on a descriptor whose width or height is
\* zero or negative aborts and returns no buffer; a buffer is returned only
\* when both dimensions are greater than 0.
C7_NonPositiveAborts ==
  IsRender =>
    /\ (avatar.width <= 0 \/ avatar.height <= 0)
         => (pc = "panicked" /\ image_buf = None)
    /\ image_buf # None => PositiveDims

\* C8: remap(t, a, b, c, d) with a = b signals DegenerateRemapRange for
\* every t, c and d instead of returning NaN or an infinity.
C8_DegenerateRemapSignals ==
  (call.op = "remap" /\ call.a = call.b)
    => remap_out = Some(DegenerateRemapRange)

\* C9: the caller can pin the noise seed of gradient, so two gradient calls
\* with identical descriptor, noise scale and gradient, made with the seed
\* pinned, return identical buffers.
C9_GradientDeterministic ==
  [][(call.op = "gradient" /\ call'.op = "gradient"
        /\ call'.noise_scale = call.noise_scale
        /\ call'.gradient = call.gradient
        /\ avatar' = avatar)
      => image_buf' = image_buf]_vars

\* C10: each gradient call draws its seed once from the full 32-bit unsigned
\* range: every value from 0 to 4294967295 inclusive is a possible seed and
\* no value outside the range is.
C10_SeedFullRange ==
  call.op = "gradient"
    => (call.seed \in call.seed_from
        /\ \A s \in SeedSamples :
             s \in call.seed_from
               <=> (s[1] \in 0..WordMax /\ s[2] \in 0..WordMax))

====
